---- MODULE Spec2Model ----
(***************************************************************************)
(* HubService of ngx-signalr-hubservice (src/unnamed/part_006, lines       *)
(* 1-556): the connection life cycle, the reconnect loop, the reconnect    *)
(* gate (reconnectingObservable) and the invocation path.                  *)
(*                                                                         *)
(* The service runs on one JavaScript thread, so every handler is one      *)
(* atomic action.  The SignalR connection is an external collaborator: its *)
(* promises and life cycle signals are the environment's actions.          *)
(***************************************************************************)
EXTENDS Integers, Sequences, FiniteSets, TLC

(* ------------------------------ bounds --------------------------------- *)
\* invoke() calls that are unsettled at one time
MaxCalls == 1
\* external connect() calls whose result is outstanding at one time
MaxConnects == 1
\* Subject objects (reconnect gates) created in one behaviour
MaxGates == 2
\* the notification counters saturate here
EmitCap == 3
\* register() calls queued before the first connect()
MaxDeferred == 2
\* register() is called while fewer listeners than this are bound
MaxListeners == 3
\* the same two bounds for each of two services side by side
MaxGroupDeferred == 1
MaxGroupListeners == 1
\* the longest hubGroups array matchesGroup is applied to
MaxGroupLen == 2

(* ------------------------------ values --------------------------------- *)
\* reconnectingObservable == null (or undefined)
Null == 0

\* hubGroups values: unset, one string, or an array of strings
NoGroup == [kind |-> "null", v |-> <<>>]
StrGroup(g) == [kind |-> "str", v |-> <<g>>]
ArrGroup(gs) == [kind |-> "arr", v |-> gs]

\* one declared subscription
Sub(e, f) == [eventName |-> e, functionName |-> f]

\* The classes of the program in the order in which they are loaded.  `hub`
\* is the argument of the class's @Hub decorator, `decorated` the
\* subscriptions its @HubSubscription methods declare, `methods` the function
\* names an instance has.  ChatA is the example's ChatService; ChatB listens
\* on the same hub; Admin's hub belongs to the group "admin"; Sender only
\* invokes and declares no event; Audit listens on Admin's hub and names no
\* group.
Classes ==
  << [ cls |-> "ChatA",
       hub |-> [hubName |-> "chatHub", hubGroups |-> NoGroup, subscriptions |-> <<>>],
       decorated |-> << Sub("messageReceived", "messageReceived") >>,
       methods |-> {"messageReceived", "sendMessage"} ],
     [ cls |-> "ChatB",
       hub |-> [hubName |-> "chatHub", hubGroups |-> NoGroup, subscriptions |-> <<>>],
       decorated |-> << Sub("messageReceived", "messageReceived"), Sub("userJoined", "onJoin") >>,
       methods |-> {"messageReceived", "onJoin"} ],
     [ cls |-> "Admin",
       hub |-> [hubName |-> "adminHub", hubGroups |-> StrGroup("admin"),
                subscriptions |-> << Sub("notify", "notify") >>],
       decorated |-> <<>>,
       methods |-> {"notify"} ],
     [ cls |-> "Sender",
       hub |-> [hubName |-> "chatHub", hubGroups |-> NoGroup, subscriptions |-> <<>>],
       decorated |-> <<>>,
       methods |-> {"send"} ],
     [ cls |-> "Audit",
       hub |-> [hubName |-> "adminHub", hubGroups |-> NoGroup, subscriptions |-> <<>>],
       decorated |-> << Sub("audit", "audit") >>,
       methods |-> {"audit"} ] >>

\* getOrCreateHubProperties as the class's @Hub decorator sees it: the
\* metadata its @HubSubscription methods made (they run first), completed
\* with the hub name and groups, or else the decorator's own argument
getOrCreateHubProperties(c) ==
  IF c.decorated # <<>>
  THEN [hubName |-> c.hub.hubName, hubGroups |-> c.hub.hubGroups, subscriptions |-> c.decorated]
  ELSE c.hub

\* the position in `registry` of the declaration with this hub name, or 0
Existing(registry, h) ==
  IF \E i \in 1..Len(registry) : registry[i].hubName = h
  THEN CHOOSE i \in 1..Len(registry) : registry[i].hubName = h
  ELSE 0

\* the @Hub decorator: the first class of a hub name puts its properties in
\* the registry; a later one pushes its subscriptions onto those
Hub(registry, c) ==
  LET hubProperties == getOrCreateHubProperties(c)
      existing == Existing(registry, hubProperties.hubName)
  IN IF existing # 0
     THEN [registry EXCEPT ![existing].subscriptions = @ \o hubProperties.subscriptions]
     ELSE Append(registry, hubProperties)

\* the registry after the first n classes were loaded
RECURSIVE RegistryUpTo(_)
RegistryUpTo(n) == IF n = 0 THEN <<>> ELSE Hub(RegistryUpTo(n - 1), Classes[n])

\* allHubProperties once the program is loaded
allHubProperties == RegistryUpTo(Len(Classes))

\* the instances the application makes, and the class of each
Instances == {"a", "b", "m", "z"}
ClassOf(instance) ==
  CASE instance = "a" -> Classes[1]
    [] instance = "b" -> Classes[2]
    [] instance = "m" -> Classes[3]
    [] instance = "z" -> Classes[4]
    [] instance = "u" -> Classes[5]

\* is c the class whose properties object the registry holds for its hub
OwnsRegistryEntry(c) ==
  \E n \in 1..Len(Classes) :
    /\ Classes[n] = c
    /\ \A k \in 1..(n - 1) : Classes[k].hub.hubName # c.hub.hubName

\* Reflect.getMetadata("Hub", instance): the properties object of the
\* instance's class.  For the first class of a hub that object is the
\* registry's entry, with the subscriptions later classes pushed onto it.
Metadata(instance) ==
  LET c == ClassOf(instance)
  IN IF OwnsRegistryEntry(c)
     THEN allHubProperties[Existing(allHubProperties, c.hub.hubName)]
     ELSE getOrCreateHubProperties(c)

\* hub names a caller may pass to invoke(); "ghostHub" is declared nowhere
HubNames == {"chatHub", "adminHub", "ghostHub"}
Methods == {"sendMessage"}

\* one positional argument: a plain value, or an array of plain values
Plain(x) == [tag |-> "plain", v |-> <<x>>]
Arr(xs) == [tag |-> "array", v |-> xs]
PlainList(xs) == [i \in 1..Len(xs) |-> Plain(xs[i])]
\* the argument lists callers pass: no argument, two arguments
ArgLists == { PlainList(<<>>), PlainList(<<"alice", "hi">>) }
\* the plain values of a list of plain arguments
Values(args) == [i \in 1..Len(args) |-> args[i].v[1]]

\* the positional arguments of an inbound frame
FrameArgs == { <<"alice", "hi">> }

\* what the transport's invoke promise settles with
Responses == {"r1", "r2"}
TransportErrors == {"e1"}

\* the options a caller passes to connect()
OptionChoices == { [attemptReconnects |-> a, hubGroups |-> NoGroup] : a \in BOOLEAN }

VARIABLES
  connection,             \* _connection !== null
  tstate,                 \* _connection.state, as the transport reports it
  starters,               \* subscribers of the pending start() promise, in order
  gateSubs,               \* the gates that connect() callers are subscribed to
  options,                \* this.options
  hubProxies,             \* this.hubProxies
  reconnectingObservable, \* the gate slot: Null or the Subject in it
  gatesMade,              \* Subjects created so far (the next one is gatesMade + 1)
  errorConnecting,        \* _errorConnecting
  tryingReconnect,        \* tryingReconnect
  loop,                   \* where the reconnect loop's subscriber stands
  calls,                  \* the unsettled invoke() calls, oldest first
  results,                \* what the step just taken delivered to callers
  emits,                  \* notifications emitted in the reconnect loop's last cycle
  knownDown,              \* the service has observed that the transport is down
  deferredRegistrations,  \* this.deferredRegistrations
  heard,                  \* what the step just taken did to the application's instances
  unregistered,           \* instances whose last registration call was an unregister
  wrappers,               \* the wrappers register() returned to the application
  transports,             \* the connections $.hubConnection has made for the service
  notified,               \* the life cycle notifications the step just taken emitted
  signalled,              \* the step just taken called disconnectedCallback
  wired,                  \* initConnection gave the transport the service's callbacks
  other                   \* a second HubService of the application, as one value

vars == << connection, tstate, starters, gateSubs, options, hubProxies,
           reconnectingObservable, gatesMade, errorConnecting, tryingReconnect, loop,
           calls, results, emits, knownDown, deferredRegistrations, heard,
           unregistered, wrappers, transports, notified, signalled,
           wired, other >>

\* the service and its environment as one value, so that handlers compose;
\* every step starts with nothing delivered yet
Cur ==
  [ connection |-> connection, tstate |-> tstate, starters |-> starters,
    gateSubs |-> gateSubs, options |-> options, hubProxies |-> hubProxies,
    reconnectingObservable |-> reconnectingObservable, gatesMade |-> gatesMade,
    errorConnecting |-> errorConnecting, tryingReconnect |-> tryingReconnect,
    loop |-> loop, calls |-> calls, results |-> <<>>, emits |-> emits,
    knownDown |-> knownDown, deferredRegistrations |-> deferredRegistrations,
    heard |-> <<>>, unregistered |-> unregistered, wrappers |-> wrappers,
    transports |-> transports, notified |-> <<>>,
    signalled |-> FALSE, wired |-> wired ]

\* a service in whose step nothing was delivered (yet)
Quiet(s) == [s EXCEPT !.results = <<>>, !.heard = <<>>, !.notified = <<>>,
                      !.signalled = FALSE]

\* the step ran handlers of the first service only
Becomes(s) ==
  /\ other' = Quiet(other)
  /\ connection' = s.connection
  /\ tstate' = s.tstate
  /\ starters' = s.starters
  /\ gateSubs' = s.gateSubs
  /\ options' = s.options
  /\ hubProxies' = s.hubProxies
  /\ reconnectingObservable' = s.reconnectingObservable
  /\ gatesMade' = s.gatesMade
  /\ errorConnecting' = s.errorConnecting
  /\ tryingReconnect' = s.tryingReconnect
  /\ loop' = s.loop
  /\ calls' = s.calls
  /\ results' = s.results
  /\ emits' = s.emits
  /\ knownDown' = s.knownDown
  /\ deferredRegistrations' = s.deferredRegistrations
  /\ heard' = s.heard
  /\ unregistered' = s.unregistered
  /\ wrappers' = s.wrappers
  /\ transports' = s.transports
  /\ notified' = s.notified
  /\ signalled' = s.signalled
  /\ wired' = s.wired

Min(a, b) == IF a < b THEN a ELSE b

NoOptions == [ set |-> FALSE, url |-> "", attemptReconnects |-> FALSE, hubGroups |-> NoGroup ]
NoProxies == [ defined |-> FALSE, proxies |-> <<>> ]
NoEmits == [ connected |-> 0, reconnected |-> 0, cause |-> "none" ]

\* a HubService after its construction
Fresh ==
  [ connection |-> FALSE, tstate |-> "disconnected", starters |-> <<>>,
    gateSubs |-> <<>>, options |-> NoOptions, hubProxies |-> NoProxies,
    reconnectingObservable |-> Null, gatesMade |-> 0,
    errorConnecting |-> FALSE, tryingReconnect |-> FALSE,
    loop |-> [pc |-> "idle", gate |-> Null], calls |-> <<>>, results |-> <<>>,
    emits |-> NoEmits, knownDown |-> FALSE, deferredRegistrations |-> <<>>,
    heard |-> <<>>, unregistered |-> {}, wrappers |-> {}, transports |-> 0,
    notified |-> <<>>, signalled |-> FALSE, wired |-> FALSE ]

Init ==
  /\ other = Fresh
  /\ connection = FALSE
  /\ tstate = "disconnected"
  /\ starters = <<>>
  /\ gateSubs = <<>>
  /\ options = NoOptions
  /\ hubProxies = NoProxies
  /\ reconnectingObservable = Null
  /\ gatesMade = 0
  /\ errorConnecting = FALSE
  /\ tryingReconnect = FALSE
  /\ loop = [pc |-> "idle", gate |-> Null]
  /\ calls = <<>>
  /\ results = <<>>
  /\ emits = NoEmits
  /\ knownDown = FALSE
  /\ deferredRegistrations = <<>>
  /\ heard = <<>>
  /\ unregistered = {}
  /\ wrappers = {}
  /\ transports = 0
  /\ notified = <<>>
  /\ signalled = FALSE
  /\ wired = FALSE

(* ------------------------- the service's handlers ---------------------- *)
\* get connected()
Connected(s) == s.connection /\ s.tstate = "connected"

\* EventEmitter.emit on one of the four life cycle emitters; the model counts
\* the connected and reconnected notifications of a reconnect loop's cycle
Emit(s, ev) ==
  IF s.tryingReconnect /\ ev \in {"connected", "reconnected"}
  THEN [s EXCEPT !.emits[ev] = Min(@ + 1, EmitCap), !.notified = Append(@, ev)]
  ELSE [s EXCEPT !.notified = Append(@, ev)]

BoolStr(b) == IF b THEN "true" ELSE "false"

\* a promise of the transport: not settled, resolved with v, or rejected with v
NoResp == [kind |-> "none", v |-> ""]
Resolved(v) == [kind |-> "resolved", v |-> v]
Rejected(v) == [kind |-> "rejected", v |-> v]

\* the subscriber of connect()'s observable receives a value (kind "value")
\* or an error (kind "error"); `path` says whether the observable was
\* start()'s or a gate's, and `resp` how start() settled.  `completes`: the
\* observable made by from(promise) completes behind its one value, a
\* Subject completes when complete() is called on it, which nothing does.
ConnectResult(s, path, kind, v, resp) ==
  [s EXCEPT !.results = Append(@, [ op |-> "connect", path |-> path, hub |-> "",
                                    method |-> "", args |-> <<>>, sent |-> <<>>,
                                    kind |-> kind, v |-> v, resp |-> resp,
                                    completes |-> (path = "start" /\ kind = "value") ])]

\* the caller of invoke() receives a value, an error, or a thrown exception;
\* the record keeps what the transport was asked and what it answered
InvokeResult(s, call, kind, v) ==
  [s EXCEPT !.results = Append(@, [ op |-> "invoke", path |-> call.path, hub |-> call.hub,
                                    method |-> call.method, args |-> call.args,
                                    sent |-> call.sent, kind |-> kind, v |-> v,
                                    resp |-> call.resp,
                                    completes |-> (kind = "value" /\ call.st = "direct") ])]

\* matchesGroup: does a declaration's hubGroups match the connection's
MatchesGroup(ours, hubGroups) ==
  IF ours.kind = "null" /\ hubGroups.kind # "null" THEN FALSE
  ELSE IF hubGroups.kind = "null" /\ ours.kind # "null" THEN FALSE
  ELSE IF hubGroups.kind = "null" /\ ours.kind = "null" THEN TRUE
  ELSE \E i \in 1..Len(hubGroups.v) : \E j \in 1..Len(ours.v) : hubGroups.v[i] = ours.v[j]

\* matchesGroup stores the array form of this.options.hubGroups when it gets
\* as far as comparing two set values
GroupAfterMatch(ours, hubGroups) ==
  IF ours.kind # "null" /\ hubGroups.kind # "null" THEN ArrGroup(ours.v) ELSE ours

\* the event names hubProxy.on is called with, in order: createHubProxy
\* skips a subscription whose event name already has a list
RECURSIVE OnCalls(_)
OnCalls(subscriptions) ==
  IF subscriptions = <<>> THEN <<>>
  ELSE LET before == OnCalls(SubSeq(subscriptions, 1, Len(subscriptions) - 1))
           eventName == subscriptions[Len(subscriptions)].eventName
       IN IF \E i \in 1..Len(before) : before[i] = eventName
          THEN before ELSE Append(before, eventName)

\* createHubProxy: one empty listener list per distinct event name, and one
\* transport subscription (hubProxy.on) for each
CreateHubProxy(properties) ==
  LET on == OnCalls(properties.subscriptions)
  IN [ events |-> [e \in { on[i] : i \in 1..Len(on) } |-> <<>>], on |-> on ]

\* an initConnection loop that makes a proxy for every declaration
RECURSIVE ProxiedUpToAll(_, _)
ProxiedUpToAll(ours, n) ==
  IF n = 0 THEN {} ELSE ProxiedUpToAll(ours, n - 1) \cup {allHubProperties[n].hubName}

\* the declarations of allHubProperties[1..n] that initConnection proxies
RECURSIVE ProxiedUpTo(_, _)
ProxiedUpTo(ours, n) ==
  IF n = 0 THEN {}
  ELSE ProxiedUpTo(ours, n - 1) \cup
       ( IF MatchesGroup(ours, allHubProperties[n].hubGroups)
         THEN {allHubProperties[n].hubName} ELSE {} )

\* this.options.hubGroups after matchesGroup ran on allHubProperties[1..n]
RECURSIVE GroupAfterUpTo(_, _)
GroupAfterUpTo(ours, n) ==
  IF n = 0 THEN ours
  ELSE GroupAfterMatch(GroupAfterUpTo(ours, n - 1), allHubProperties[n].hubGroups)

PropertiesOf(h) ==
  allHubProperties[CHOOSE i \in 1..Len(allHubProperties) : allHubProperties[i].hubName = h]

\* what a step did to an instance: register/unregister returned or threw
\* (op "register", "unregister"), a handler was called with a frame's
\* arguments and returned or threw (op "call"), the transport's callback for
\* a frame returned or threw (op "frame")
Heard(s, op, instance, hub, eventName, fn, args, kind, v) ==
  [s EXCEPT !.heard = Append(@, [ op |-> op, instance |-> instance, hub |-> hub,
                                  eventName |-> eventName, fn |-> fn, args |-> args,
                                  kind |-> kind, v |-> v ])]

\* the hub field of a wrapper that register made while there were no proxies
NoHub == "null"

\* register returned a wrapper (v is its hub field: NoHub, or the proxy of
\* the hub named v), returned undefined, or threw v
RegisterResult(s, instance, kind, v) ==
  Heard(s, "register", instance, Metadata(instance).hubName, "", "", <<>>, kind, v)

UnregisterResult(s, instance, kind, v) ==
  Heard(s, "unregister", instance, Metadata(instance).hubName, "", "", <<>>, kind, v)

\* did the last thing the step did end with a thrown exception
Threw(s) == s.heard # <<>> /\ s.heard[Len(s.heard)].kind = "thrown"

NoEventsError == "must have at least one event subscription"
InvalidHubError == "Invalid hub name"

\* the first subscription of `todo` that register cannot push a listener
\* for because the proxy has no list for its event, or 0
FirstUnlisted(s, instance, h, todo) ==
  LET bad == { i \in 1..Len(todo) :
                 /\ todo[i].functionName \in ClassOf(instance).methods
                 /\ todo[i].eventName \notin DOMAIN s.hubProxies.proxies[h].events }
  IN IF bad = {} THEN 0 ELSE CHOOSE i \in bad : \A j \in bad : i <= j

\* a register loop that binds a listener for every subscription, whether
\* the instance has the method or not
RECURSIVE SubscribeUnchecked(_, _, _, _)
SubscribeUnchecked(s, instance, h, todo) ==
  IF todo = <<>> THEN s
  ELSE LET subscription == Head(todo)
       IN SubscribeUnchecked(
            [s EXCEPT !.hubProxies.proxies[h].events[subscription.eventName] =
                        Append(@, [thisObj |-> instance,
                                   callback |-> subscription.functionName])],
            instance, h, Tail(todo))

\* register's loop over the subscriptions: a subscription whose method the
\* instance lacks is skipped, every other one pushes a listener
RECURSIVE Subscribe(_, _, _, _)
Subscribe(s, instance, h, todo) ==
  IF todo = <<>> THEN s
  ELSE LET subscription == Head(todo)
       IN IF subscription.functionName \notin ClassOf(instance).methods
          THEN Subscribe(s, instance, h, Tail(todo))
          ELSE Subscribe(
                 [s EXCEPT !.hubProxies.proxies[h].events[subscription.eventName] =
                             Append(@, [thisObj |-> instance,
                                        callback |-> subscription.functionName])],
                 instance, h, Tail(todo))

\* a register that looks for the proxies before it counts the subscriptions
RegisterBodyDefersFirst(s, instance) ==
  LET hubProperties == Metadata(instance)
      h == hubProperties.hubName
  IN IF ~s.hubProxies.defined
     THEN RegisterResult([s EXCEPT !.deferredRegistrations = Append(@, instance)],
                         instance, "wrapper", NoHub)
     ELSE IF Len(hubProperties.subscriptions) = 0
     THEN RegisterResult(s, instance, "thrown", NoEventsError)
     ELSE IF h \notin DOMAIN s.hubProxies.proxies
     THEN IF ~MatchesGroup(s.options.hubGroups, hubProperties.hubGroups)
          THEN RegisterResult(s, instance, "undefined", "")
          ELSE RegisterResult(s, instance, "thrown", InvalidHubError)
     ELSE RegisterResult(Subscribe(s, instance, h, hubProperties.subscriptions),
                         instance, "wrapper", h)

\* a register that takes every hub without a proxy for an invalid hub
RegisterBodyNoGroups(s, instance) ==
  LET hubProperties == Metadata(instance)
      h == hubProperties.hubName
  IN IF Len(hubProperties.subscriptions) = 0
     THEN RegisterResult(s, instance, "thrown", NoEventsError)
     ELSE IF ~s.hubProxies.defined
     THEN RegisterResult([s EXCEPT !.deferredRegistrations = Append(@, instance)],
                         instance, "wrapper", NoHub)
     ELSE IF h \notin DOMAIN s.hubProxies.proxies
     THEN RegisterResult(s, instance, "thrown", InvalidHubError)
     ELSE RegisterResult(Subscribe(s, instance, h, hubProperties.subscriptions),
                         instance, "wrapper", h)

\* a register that returns silently for every hub without a proxy
RegisterBodySilent(s, instance) ==
  LET hubProperties == Metadata(instance)
      h == hubProperties.hubName
  IN IF Len(hubProperties.subscriptions) = 0
     THEN RegisterResult(s, instance, "thrown", NoEventsError)
     ELSE IF ~s.hubProxies.defined
     THEN RegisterResult([s EXCEPT !.deferredRegistrations = Append(@, instance)],
                         instance, "wrapper", NoHub)
     ELSE IF h \notin DOMAIN s.hubProxies.proxies
     THEN RegisterResult(s, instance, "undefined", "")
     ELSE RegisterResult(Subscribe(s, instance, h, hubProperties.subscriptions),
                         instance, "wrapper", h)

\* register(instance)
RegisterBody(s, instance) ==
  LET hubProperties == Metadata(instance)
      h == hubProperties.hubName
  IN IF Len(hubProperties.subscriptions) = 0
     THEN RegisterResult(s, instance, "thrown", NoEventsError)
     ELSE IF ~s.hubProxies.defined
     THEN RegisterResult([s EXCEPT !.deferredRegistrations = Append(@, instance)],
                         instance, "wrapper", NoHub)
     ELSE IF h \notin DOMAIN s.hubProxies.proxies
     THEN LET s1 == [s EXCEPT !.options.hubGroups =
                                 GroupAfterMatch(@, hubProperties.hubGroups)]
          IN IF ~MatchesGroup(s.options.hubGroups, hubProperties.hubGroups)
             THEN RegisterResult(s1, instance, "undefined", "")
             ELSE RegisterResult(s1, instance, "thrown", InvalidHubError)
     ELSE LET unlisted == FirstUnlisted(s, instance, h, hubProperties.subscriptions)
          IN IF unlisted = 0
             THEN RegisterResult(Subscribe(s, instance, h, hubProperties.subscriptions),
                                 instance, "wrapper", h)
             ELSE RegisterResult(
                    Subscribe(s, instance, h,
                              SubSeq(hubProperties.subscriptions, 1, unlisted - 1)),
                    instance, "thrown", "TypeError")

\* unregister(instance)
UnregisterBody(s, instance) ==
  LET hubProperties == Metadata(instance)
      h == hubProperties.hubName
      names == { hubProperties.subscriptions[i].eventName :
                   i \in 1..Len(hubProperties.subscriptions) }
  IN IF ~s.hubProxies.defined
     THEN UnregisterResult(s, instance, "thrown", "TypeError")
     ELSE IF h \notin DOMAIN s.hubProxies.proxies
     THEN IF names = {} THEN UnregisterResult(s, instance, "returned", "")
          ELSE UnregisterResult(s, instance, "thrown", "TypeError")
     ELSE UnregisterResult(
            [s EXCEPT !.hubProxies.proxies[h].events =
               [e \in DOMAIN @ |->
                  IF e \in names
                  THEN SelectSeq(@[e], LAMBDA l : l.thisObj # instance)
                  ELSE @[e]]],
            instance, "returned", "")

\* a loop without the try/catch: the first handler that throws ends it
RECURSIVE DispatchUnguarded(_, _, _, _, _, _)
DispatchUnguarded(s, hub, eventName, args, throwers, todo) ==
  IF todo = <<>> THEN s
  ELSE LET func == Head(todo)
       IN IF func.thisObj \in throwers
          THEN Heard(s, "call", func.thisObj, hub, eventName, func.callback, args, "threw", "")
          ELSE DispatchUnguarded(
                 Heard(s, "call", func.thisObj, hub, eventName, func.callback, args,
                       "returned", ""),
                 hub, eventName, args, throwers, Tail(todo))

\* the loop of hubMessageReceived: each listener is called inside its own
\* try/catch; the instances in `throwers` have handlers that throw
RECURSIVE Dispatch(_, _, _, _, _, _)
Dispatch(s, hub, eventName, args, throwers, todo) ==
  IF todo = <<>> THEN s
  ELSE LET func == Head(todo)
       IN Dispatch(Heard(s, "call", func.thisObj, hub, eventName, func.callback, args,
                         IF func.thisObj \in throwers THEN "threw" ELSE "returned", ""),
                   hub, eventName, args, throwers, Tail(todo))

\* hubMessageReceived(hub, subscription, args), called by the function that
\* createHubProxy gave to hubProxy.on
HubMessageReceived(s, hub, eventName, args, throwers) ==
  IF hub \notin DOMAIN s.hubProxies.proxies
  THEN Heard(s, "frame", "", hub, eventName, "", args, "returned", "")
  ELSE Heard(Dispatch(s, hub, eventName, args, throwers,
                      s.hubProxies.proxies[hub].events[eventName]),
             "frame", "", hub, eventName, "", args, "returned", "")

\* initConnection's loop over this.deferredRegistrations
RECURSIVE RegisterDeferred(_, _)
\* the loop goes on after a register call unless that call threw
RegisterRest(s, todo) == IF Threw(s) THEN s ELSE RegisterDeferred(s, todo)
RegisterDeferred(s, todo) ==
  IF todo = <<>> THEN s ELSE RegisterRest(RegisterBody(s, Head(todo)), Tail(todo))

\* the end of initConnection: the transport gets the service's callbacks,
\* unless a replayed register threw and left initConnection before
WireHooks(s) == IF Threw(s) THEN s ELSE [s EXCEPT !.wired = TRUE]

\* initConnection: the transport is constructed, one proxy is made for
\* every declaration whose group matches, the deferred registrations are
\* replayed and the hooks are wired
InitConnection(s) ==
  LET hubs == ProxiedUpTo(s.options.hubGroups, Len(allHubProperties))
  IN WireHooks(RegisterDeferred(
       [s EXCEPT !.connection = TRUE, !.transports = @ + 1,
                 !.hubProxies = [ defined |-> TRUE,
                                  proxies |-> [h \in hubs |-> CreateHubProxy(PropertiesOf(h))] ],
                 !.options.hubGroups = GroupAfterUpTo(s.options.hubGroups, Len(allHubProperties))],
       s.deferredRegistrations))

\* a connectedCallback that never takes the error flag back
ConnectedCallbackSticky(s) ==
  Emit([s EXCEPT !.errorConnecting = @ \/ ~Connected(s)], "connected")

\* connectedCallback (the tap of _connect)
ConnectedCallback(s) ==
  Emit([s EXCEPT !.errorConnecting = ~Connected(s)], "connected")

\* connectionErrorCallback (the catchError of _connect)
ConnectionErrorCallback(s) ==
  Emit([s EXCEPT !.errorConnecting = TRUE], "disconnected")

\* hubContainer.hubProxy.invoke(method, ...args): what the transport is asked
TransportInvoke(call, st, args) ==
  [call EXCEPT !.st = st,
               !.sent = Append(@, [hub |-> call.hub, method |-> call.method, args |-> args])]

\* the flatMap of invoke's gate branch when the gate delivers true
GateProject(call) == TransportInvoke(call, "gated", call.cur)

\* the flatMap of invoke's gate branch when the gate delivers false
GateError == "SignalR disconnected"

\* the calls subscribed to gate g get v: each is sent, or fails
RECURSIVE NotifyCalls(_, _, _, _)
NotifyCalls(s, g, v, todo) ==
  IF todo = <<>> THEN s
  ELSE LET call == Head(todo)
       IN IF call.st = "waiting" /\ call.gate = g
          THEN IF v
               THEN NotifyCalls([s EXCEPT !.calls = Append(@, GateProject(call))], g, v, Tail(todo))
               ELSE NotifyCalls(InvokeResult(s, call, "error", GateError), g, v, Tail(todo))
          ELSE NotifyCalls([s EXCEPT !.calls = Append(@, call)], g, v, Tail(todo))

\* the connect() callers subscribed to gate g get v
RECURSIVE NotifyConnects(_, _, _, _)
NotifyConnects(s, g, v, todo) ==
  IF todo = <<>> THEN s
  ELSE IF Head(todo) = g
       THEN NotifyConnects(ConnectResult(s, "gate", "value", BoolStr(v), NoResp), g, v, Tail(todo))
       ELSE NotifyConnects([s EXCEPT !.gateSubs = Append(@, Head(todo))], g, v, Tail(todo))

\* the loop's subscriber when the observable it subscribed to is the gate
\* itself: on true it calls reconnectedCallback from inside the gate's next(),
\* which calls next() on the same Subject again, without end (stack overflow)
LoopOnGate(s, v) ==
  IF v THEN [s EXCEPT !.loop = [pc |-> "overflow", gate |-> Null]]
  ELSE [s EXCEPT !.loop = [pc |-> "delay", gate |-> Null]]

\* Subject.next(v) on gate g: every subscriber of that Subject gets v
GateNext(s, g, v) ==
  LET s1 == IF s.loop.pc = "gate" /\ s.loop.gate = g THEN LoopOnGate(s, v) ELSE s
      s2 == NotifyConnects([s1 EXCEPT !.gateSubs = <<>>], g, v, s1.gateSubs)
  IN NotifyCalls([s2 EXCEPT !.calls = <<>>], g, v, s2.calls)

\* a reconnectedCallback that leaves the gate in the slot
ReconnectedCallbackKeepsGate(s) ==
  LET s1 == Emit(Emit(s, "reconnected"), "connected")
  IN IF s1.reconnectingObservable = Null THEN s1
     ELSE GateNext(s1, s1.reconnectingObservable, Connected(s1))

\* reconnectedCallback; with an empty slot the next() is a TypeError and the
\* statements after it do not run
ReconnectedCallback(s) ==
  LET s1 == Emit(Emit(s, "reconnected"), "connected")
  IN IF s1.reconnectingObservable = Null THEN s1
     ELSE [ GateNext(s1, s1.reconnectingObservable, Connected(s1))
            EXCEPT !.reconnectingObservable = Null ]

\* a recconectingCallback that only notifies
RecconectingCallbackNoGate(s) == Emit(s, "reconnecting")

\* recconectingCallback
RecconectingCallback(s) ==
  [ Emit(s, "reconnecting") EXCEPT !.reconnectingObservable = s.gatesMade + 1,
                                   !.gatesMade = s.gatesMade + 1 ]

\* tryReconnect's subscribe callback, up to its await
LoopNext(s, v) ==
  IF ~v THEN [s EXCEPT !.loop = [pc |-> "delay", gate |-> Null]]
  ELSE IF s.reconnectingObservable = Null
       THEN [ ReconnectedCallback(s) EXCEPT !.loop = [pc |-> "idle", gate |-> Null] ]
       ELSE [ ReconnectedCallback(s) EXCEPT !.loop = [pc |-> "idle", gate |-> Null],
                                            !.tryingReconnect = FALSE ]

\* the subscriber of a _connect observable receives v
Deliver(s, owner, v, resp) ==
  IF owner = "loop" THEN LoopNext(s, v)
  ELSE ConnectResult(s, "start", "value", BoolStr(v), resp)

\* the pipe of _connect when start() resolved: map, tap, then the subscriber
ChainResolved(s, owner) ==
  LET v == Connected(s)
  IN Deliver([ConnectedCallback(s) EXCEPT !.knownDown = ~v], owner, v, Resolved(""))

\* a pipe of _connect without the catchError: the rejection reaches the
\* subscriber as an error (the loop's subscriber has no error callback)
ChainRejectedThrows(s, owner) ==
  IF owner = "loop" THEN [s EXCEPT !.knownDown = TRUE]
  ELSE ConnectResult([s EXCEPT !.knownDown = TRUE], "start", "error", "e", Rejected(""))

\* the pipe of _connect when start() rejected: catchError, then the subscriber
ChainRejected(s, owner) ==
  Deliver([ConnectionErrorCallback(s) EXCEPT !.knownDown = TRUE], owner, FALSE, Rejected(""))

\* _connection.start() called by _connect on behalf of `owner`.  A connected
\* transport resolves at once; otherwise the promise is pending.
Start(s, owner) ==
  IF s.tstate \in {"connected", "reconnecting"}
  THEN ChainResolved(s, owner)
  ELSE [s EXCEPT !.tstate = "connecting", !.starters = Append(@, owner)]

\* _connect after its call of initConnection: an exception thrown there
\* leaves connect() before start() is called
StartUnlessThrown(s, owner) ==
  IF Threw(s) THEN ConnectResult(s, "start", "thrown", "", NoResp) ELSE Start(s, owner)

\* a _connect that does not look at the gate slot
ConnectBodyIgnoresGate(s, owner, ignoreReconnecting) ==
  Start(IF ~s.connection THEN InitConnection(s) ELSE s, owner)

\* a _connect that sets up the connection on every call
ConnectBodyAlwaysInits(s, owner, ignoreReconnecting) ==
  IF ~ignoreReconnecting /\ s.reconnectingObservable # Null
  THEN IF owner = "loop"
       THEN [s EXCEPT !.loop = [pc |-> "gate", gate |-> s.reconnectingObservable]]
       ELSE [s EXCEPT !.gateSubs = Append(@, s.reconnectingObservable)]
  ELSE StartUnlessThrown(InitConnection(s), owner)

\* _connect(ignoreReconnecting), subscribed by `owner`
ConnectBody(s, owner, ignoreReconnecting) ==
  IF ~ignoreReconnecting /\ s.reconnectingObservable # Null
  THEN IF owner = "loop"
       THEN [s EXCEPT !.loop = [pc |-> "gate", gate |-> s.reconnectingObservable]]
       ELSE [s EXCEPT !.gateSubs = Append(@, s.reconnectingObservable)]
  ELSE StartUnlessThrown(IF ~s.connection THEN InitConnection(s) ELSE s, owner)

\* connect(options)
ConnectCall(s, o) ==
  ConnectBody(
    [s EXCEPT !.options = [ set |-> TRUE, url |-> "/signalr",
                            attemptReconnects |-> o.attemptReconnects,
                            hubGroups |-> o.hubGroups ]],
    "ext", FALSE)

\* tryReconnect
TryReconnect(s) ==
  LET g == s.gatesMade + 1
  IN ConnectBody(
       [s EXCEPT !.tryingReconnect = TRUE, !.reconnectingObservable = g, !.gatesMade = g,
                 !.loop = [pc |-> "start", gate |-> Null]],
       "loop", s.options.attemptReconnects)

\* a disconnectedCallback that does not look at the loop's flag
DisconnectedCallbackUnguarded(s) ==
  LET s1 == Emit([s EXCEPT !.knownDown = TRUE, !.signalled = TRUE], "disconnected")
  IN IF s1.options.attemptReconnects
     THEN TryReconnect([s1 EXCEPT !.emits = NoEmits])
     ELSE s1

\* disconnectedCallback
DisconnectedCallback(s) ==
  LET s0 == [s EXCEPT !.knownDown = TRUE, !.signalled = TRUE]
  IN IF s0.tryingReconnect THEN s0
     ELSE LET s1 == Emit(s0, "disconnected")
          IN IF s1.options.attemptReconnects
             THEN TryReconnect([s1 EXCEPT !.emits = NoEmits])
             ELSE s1

\* invoke without the check of the gate slot
InvokeBodyUngated(s, call) ==
  IF ~s.hubProxies.defined
  THEN InvokeResult(s, call, "thrown", "TypeError")
  ELSE IF call.hub \notin DOMAIN s.hubProxies.proxies
  THEN InvokeResult(s, call, "thrown", "Invalid hub name")
  ELSE [s EXCEPT !.calls = Append(@, TransportInvoke(call, "direct", call.cur))]

\* invoke passing its rest array to the transport as one argument
InvokeBodyNoSpread(s, call) ==
  IF ~s.hubProxies.defined
  THEN InvokeResult(s, call, "thrown", "TypeError")
  ELSE IF call.hub \notin DOMAIN s.hubProxies.proxies
  THEN InvokeResult(s, call, "thrown", "Invalid hub name")
  ELSE IF s.reconnectingObservable # Null
  THEN [s EXCEPT !.calls = Append(@, [call EXCEPT !.st = "waiting",
                                                  !.gate = s.reconnectingObservable,
                                                  !.during = IF s.tryingReconnect THEN s.emits.cause ELSE "none"])]
  ELSE [s EXCEPT !.calls = Append(@, TransportInvoke(call, "direct", <<Arr(Values(call.cur))>>))]

\* invoke(hubName, method, ...args) for `call`, whose argument list is call.cur
InvokeBody(s, call) ==
  IF ~s.hubProxies.defined
  THEN InvokeResult(s, call, "thrown", "TypeError")
  ELSE IF call.hub \notin DOMAIN s.hubProxies.proxies
  THEN InvokeResult(s, call, "thrown", "Invalid hub name")
  ELSE IF s.reconnectingObservable # Null
  THEN [s EXCEPT !.calls = Append(@, [call EXCEPT !.st = "waiting",
                                                  !.gate = s.reconnectingObservable,
                                                  !.during = IF s.tryingReconnect THEN s.emits.cause ELSE "none"])]
  ELSE [s EXCEPT !.calls = Append(@, TransportInvoke(call, "direct", call.cur))]

\* the argument list of the call that invoke's catchError issues again: the
\* rest array `args` is passed as one argument
ReissueArgs(args) == << Arr(Values(args)) >>

\* a catchError that issues the call again whether or not a gate is open
InvokeCatchAlways(s, call, err) ==
  InvokeBody(s, [call EXCEPT !.path = "retry", !.cur = ReissueArgs(call.args),
                             !.resp = NoResp])

\* the catchError of invoke's direct branch, for a call taken out of s.calls
InvokeCatch(s, call, err) ==
  IF s.reconnectingObservable # Null
  THEN InvokeBody(s, [call EXCEPT !.path = "retry", !.cur = ReissueArgs(call.args),
                                  !.resp = NoResp])
  ELSE InvokeResult(s, call, "error", err)

\* the value of the transport's promise reaches invoke's subscriber
InvokeNext(s, call, v) == InvokeResult(s, call, "value", v)

\* a gate branch with the direct branch's catchError behind it
InvokeErrorRetries(s, call, err) == InvokeCatch(s, call, err)

\* the gate branch has no catchError: the rejection reaches the subscriber
InvokeError(s, call, err) == InvokeResult(s, call, "error", err)

RECURSIVE SettleStart(_, _, _)
SettleStart(s, owners, resolved) ==
  IF owners = <<>> THEN s
  ELSE SettleStart( IF resolved THEN ChainResolved(s, Head(owners))
                    ELSE ChainRejected(s, Head(owners)),
                    Tail(owners), resolved )

\* would disconnectedCallback start the reconnect loop
StartsLoop(s) == s.wired /\ ~s.tryingReconnect /\ s.options.attemptReconnects

\* the transport raises a signal: the service's callback runs and leaves it
\* as `t` if initConnection gave the callbacks to the transport
Hook(s, t) == IF s.wired THEN t ELSE s

\* a reconnect loop set going by the transport's loss of an established
\* connection is marked "lost" in the cycle's record
Caused(s, c) ==
  IF s.tryingReconnect /\ ~tryingReconnect THEN [s EXCEPT !.emits.cause = c] ELSE s

Without(seq, i) == [j \in 1..(Len(seq) - 1) |-> IF j < i THEN seq[j] ELSE seq[j + 1]]

NewCall(h, m, a, open) ==
  [ st |-> "new", hub |-> h, method |-> m, args |-> a, cur |-> a, gate |-> Null,
    sent |-> <<>>, path |-> IF open THEN "gate" ELSE "direct", during |-> "none",
    resp |-> NoResp ]

PendingConnects == Len(SelectSeq(starters, LAMBDA o : o = "ext")) + Len(gateSubs)

\* the transport's disconnected, reconnecting and reconnected signals
SignalDisconnected(s) == Hook(s, DisconnectedCallback(s))
SignalReconnecting(s) == Hook(s, RecconectingCallback(s))
SignalReconnected(s) == Hook(s, ReconnectedCallback(s))

(* ------------------------------- actions ------------------------------- *)
\* the application calls connect(options) and subscribes to the result
Connect ==
  /\ PendingConnects < MaxConnects
  /\ \E o \in OptionChoices : Becomes(ConnectCall(Cur, o))

\* the application calls disconnect(): the transport is stopped, which
\* rejects a pending start and raises the disconnected signal
Disconnect ==
  /\ connection
  /\ tstate # "disconnected"
  /\ StartsLoop(Cur) => gatesMade < MaxGates
  /\ Becomes(SignalDisconnected(
       SettleStart([Cur EXCEPT !.tstate = "disconnected", !.starters = <<>>], starters, FALSE)))

\* the application calls invoke (through a wrapper or directly) and subscribes
Invoke ==
  /\ Len(calls) < MaxCalls
  /\ \E h \in HubNames, m \in Methods, a \in ArgLists :
       Becomes(InvokeBody(Cur, NewCall(h, m, a, reconnectingObservable # Null)))

\* the pending start() promise resolves: the transport is connected
StartResolve ==
  /\ tstate = "connecting"
  /\ Becomes(SettleStart([Cur EXCEPT !.tstate = "connected", !.starters = <<>>], starters, TRUE))

\* the pending start() promise rejects; the transport may also raise its
\* disconnected signal
StartReject ==
  /\ tstate = "connecting"
  /\ \E signal \in BOOLEAN :
       LET s1 == SettleStart([Cur EXCEPT !.tstate = "disconnected", !.starters = <<>>],
                             starters, FALSE)
       IN /\ (signal /\ StartsLoop(s1)) => gatesMade < MaxGates
          /\ Becomes(IF signal THEN SignalDisconnected(s1) ELSE s1)

\* the transport lost its connection and gave up: the disconnected hook
TransportDisconnected ==
  /\ tstate \in {"connected", "reconnecting"}
  /\ StartsLoop(Cur) => gatesMade < MaxGates
  /\ Becomes(Caused(SignalDisconnected([Cur EXCEPT !.tstate = "disconnected"]), "lost"))

\* the transport lost its connection and retries by itself: the reconnecting hook
TransportReconnecting ==
  /\ tstate = "connected"
  /\ gatesMade < MaxGates
  /\ Becomes(SignalReconnecting([Cur EXCEPT !.tstate = "reconnecting"]))

\* the transport's own retry succeeded: the reconnected hook
TransportReconnected ==
  /\ tstate = "reconnecting"
  /\ Becomes(SignalReconnected([Cur EXCEPT !.tstate = "connected"]))

\* HubService.delay(1000) elapsed: the loop's subscriber calls tryReconnect
DelayElapsed ==
  /\ loop.pc = "delay"
  /\ gatesMade < MaxGates
  /\ Becomes(TryReconnect(Cur))

\* the transport resolves the promise of a hubProxy.invoke
InvokeResolve ==
  \E i \in 1..Len(calls), v \in Responses :
    /\ calls[i].st \in {"direct", "gated"}
    /\ Becomes(InvokeNext([Cur EXCEPT !.calls = Without(calls, i)],
                           [calls[i] EXCEPT !.resp = Resolved(v)], v))

\* the transport rejects the promise of a hubProxy.invoke
InvokeReject ==
  \E i \in 1..Len(calls), e \in TransportErrors :
    \/ /\ calls[i].st = "direct"
       /\ Becomes(InvokeCatch([Cur EXCEPT !.calls = Without(calls, i)],
                               [calls[i] EXCEPT !.resp = Rejected(e)], e))
    \/ /\ calls[i].st = "gated"
       /\ Becomes(InvokeError([Cur EXCEPT !.calls = Without(calls, i)],
                               [calls[i] EXCEPT !.resp = Rejected(e)], e))

Next ==
  \/ Connect
  \/ Disconnect
  \/ Invoke
  \/ StartResolve
  \/ StartReject
  \/ TransportDisconnected
  \/ TransportReconnecting
  \/ TransportReconnected
  \/ DelayElapsed
  \/ InvokeResolve
  \/ InvokeReject

Spec == Init /\ [][Next]_vars

(* ------------------- connect() while a start is pending ---------------- *)
\* the connect() calls the application may have unanswered at a time
MaxPending == 2

\* the application calls connect(options), also while an earlier call of it
\* has not been answered
ConnectWhilePending ==
  /\ PendingConnects < MaxPending
  /\ \E o \in OptionChoices : Becomes(ConnectCall(Cur, o))

StartNext ==
  \/ ConnectWhilePending
  \/ Disconnect
  \/ StartResolve
  \/ StartReject
  \/ TransportDisconnected
  \/ TransportReconnecting
  \/ TransportReconnected
  \/ DelayElapsed

StartSpec == Init /\ [][StartNext]_vars

(* ---------------------- registration and dispatch ---------------------- *)
\* the listeners bound on all proxies
RECURSIVE Total(_, _)
Total(f, S) ==
  IF S = {} THEN 0
  ELSE LET x == CHOOSE y \in S : TRUE IN Len(f[x]) + Total(f, S \ {x})

RECURSIVE Listeners(_)
Listeners(H) ==
  IF H = {} THEN 0
  ELSE LET h == CHOOSE y \in H : TRUE
       IN Total(hubProxies.proxies[h].events, DOMAIN hubProxies.proxies[h].events)
            + Listeners(H \ {h})

\* the application keeps what register returned to it: a wrapper whose hub
\* field is as register left it
Keep(s) ==
  LET r == s.heard[Len(s.heard)]
  IN IF r.kind = "wrapper"
     THEN [s EXCEPT !.wrappers = @ \cup {[instance |-> r.instance, hubName |-> r.hub,
                                          hub |-> r.v]}]
     ELSE s

\* the application lets go of the wrappers of an instance once unregister
\* has returned for it
Drop(s, instance) ==
  IF Threw(s) THEN s
  ELSE [s EXCEPT !.wrappers = { w \in @ : w.instance # instance }]

\* the application calls register(instance)
Register ==
  /\ IF hubProxies.defined
     THEN Listeners(DOMAIN hubProxies.proxies) < MaxListeners
     ELSE Len(deferredRegistrations) < MaxDeferred
  /\ \E instance \in Instances :
       Becomes(Keep(RegisterBody([Cur EXCEPT !.unregistered = @ \ {instance}], instance)))

\* the application calls unregister(instance), or unregister() on the
\* wrapper that register(instance) returned
Unregister ==
  \E instance \in Instances :
    Becomes(Drop(UnregisterBody([Cur EXCEPT !.unregistered = @ \cup {instance}], instance),
                 instance))

\* the transport delivers an inbound frame to the function that
\* createHubProxy subscribed for its event
FrameArrives ==
  /\ hubProxies.defined
  /\ tstate = "connected"
  /\ \E hub \in DOMAIN hubProxies.proxies :
       \E n \in 1..Len(hubProxies.proxies[hub].on), args \in FrameArgs,
          throwers \in SUBSET Instances :
         Becomes(HubMessageReceived(Cur, hub, hubProxies.proxies[hub].on[n], args, throwers))

RegNext ==
  \/ Connect
  \/ StartResolve
  \/ Register
  \/ Unregister
  \/ FrameArrives

RegSpec == Init /\ [][RegNext]_vars

(* ------------- a deferred registration that fails in connect ---------- *)
\* the instances of an application that also has an instance of Audit
ReplayInstances == {"a", "m", "u"}

\* the application calls register(instance)
ReplayRegister ==
  /\ IF hubProxies.defined
     THEN Listeners(DOMAIN hubProxies.proxies) < MaxListeners
     ELSE Len(deferredRegistrations) < MaxDeferred
  /\ \E instance \in ReplayInstances :
       Becomes(Keep(RegisterBody([Cur EXCEPT !.unregistered = @ \ {instance}], instance)))

\* the application calls connect(options), once the result of its last
\* connect() call has arrived or that call has thrown
ReplayConnect ==
  /\ PendingConnects = 0
  /\ \E o \in OptionChoices : Becomes(ConnectCall(Cur, o))

ReplayNext ==
  \/ ReplayRegister
  \/ ReplayConnect
  \/ StartResolve
  \/ StartReject
  \/ TransportDisconnected
  \/ DelayElapsed

ReplaySpec == Init /\ [][ReplayNext]_vars

(* -------------------- handlers that call unregister -------------------- *)
\* the handler has run: it returned, or the exception of its last call left it
HandlerDone(s, func, hub, eventName, args) ==
  Heard(s, "call", func.thisObj, hub, eventName, func.callback, args,
        IF Threw(s) THEN "threw" ELSE "returned", "")

\* a handler that calls unregister(whom) and returns; an exception of that
\* call is the handler's, and the try/catch of the loop takes it
HandlerUnregisters(s, func, hub, eventName, args, whom) ==
  HandlerDone(Drop(UnregisterBody([s EXCEPT !.unregistered = @ \cup {whom}], whom), whom),
              func, hub, eventName, args)

\* the loop of hubMessageReceived when handlers call unregister: for..of
\* reads events[i] of the array as it is by then, until i is past its end,
\* and unregister splices that same array.  quits.who is the instance whose
\* handler calls unregister(quits.whom).
RECURSIVE DispatchLive(_, _, _, _, _, _)
DispatchNext(s, hub, eventName, args, quits, i, func) ==
  DispatchLive(IF func.thisObj = quits.who
               THEN HandlerUnregisters(s, func, hub, eventName, args, quits.whom)
               ELSE Heard(s, "call", func.thisObj, hub, eventName, func.callback, args,
                          "returned", ""),
               hub, eventName, args, quits, i + 1)
DispatchLive(s, hub, eventName, args, quits, i) ==
  IF i > Len(s.hubProxies.proxies[hub].events[eventName]) THEN s
  ELSE DispatchNext(s, hub, eventName, args, quits, i,
                    s.hubProxies.proxies[hub].events[eventName][i])

\* hubMessageReceived(hub, subscription, args) with such handlers
HubMessageUnregisters(s, hub, eventName, args, quits) ==
  IF hub \notin DOMAIN s.hubProxies.proxies
  THEN Heard(s, "frame", "", hub, eventName, "", args, "returned", "")
  ELSE Heard(DispatchLive(s, hub, eventName, args, quits, 1),
             "frame", "", hub, eventName, "", args, "returned", "")

\* the instances whose handlers may call unregister, and those they name
Quitters == {"a", "b"}

\* the transport delivers an inbound frame, and the handler of one instance
\* calls unregister, for its own instance or for another
FrameUnregisters ==
  /\ hubProxies.defined
  /\ tstate = "connected"
  /\ \E hub \in DOMAIN hubProxies.proxies :
       \E n \in 1..Len(hubProxies.proxies[hub].on), args \in FrameArgs,
          who \in Quitters, whom \in Quitters :
         Becomes(HubMessageUnregisters(Cur, hub, hubProxies.proxies[hub].on[n], args,
                                       [who |-> who, whom |-> whom]))

DispatchSpecNext ==
  \/ Connect
  \/ StartResolve
  \/ Register
  \/ FrameUnregisters

DispatchSpec == Init /\ [][DispatchSpecNext]_vars

(* ------------------- hub groups and a second service ------------------- *)
\* the options the application passes to connect() on the first service
\* when its hubs are spread over groups
GroupOptionChoices ==
  { [attemptReconnects |-> a, hubGroups |-> g] :
      a \in BOOLEAN, g \in { NoGroup, StrGroup("admin") } }

\* the options it passes to connect() on the second service
OtherOptionChoices ==
  { [attemptReconnects |-> FALSE, hubGroups |-> g] :
      g \in { StrGroup("admin"), ArrGroup(<<"ops", "admin">>) } }

\* the listeners bound on the proxies H of a proxy map
RECURSIVE BoundIn(_, _)
BoundIn(proxies, H) ==
  IF H = {} THEN 0
  ELSE LET h == CHOOSE y \in H : TRUE
       IN Total(proxies[h].events, DOMAIN proxies[h].events) + BoundIn(proxies, H \ {h})

\* the step ran handlers of the second service only
OtherBecomes(s) ==
  /\ other' = s
  /\ results' = <<>>
  /\ heard' = <<>>
  /\ notified' = <<>>
  /\ signalled' = FALSE
  /\ UNCHANGED << connection, tstate, starters, gateSubs, options, hubProxies,
                  reconnectingObservable, gatesMade, errorConnecting, tryingReconnect,
                  loop, calls, emits, knownDown, deferredRegistrations, unregistered,
                  wrappers, transports, wired >>

\* the application calls connect(options) on the first service, once the
\* result of its last connect() call has arrived
GroupConnect ==
  /\ PendingConnects = 0
  /\ \E o \in GroupOptionChoices : Becomes(ConnectCall(Cur, o))

\* the application calls register(instance) on the first service
GroupRegister ==
  /\ IF hubProxies.defined
     THEN Listeners(DOMAIN hubProxies.proxies) < MaxGroupListeners
     ELSE Len(deferredRegistrations) < MaxGroupDeferred
  /\ \E instance \in Instances : Becomes(Keep(RegisterBody(Cur, instance)))

\* the first service's transport delivers an inbound frame
GroupFrame ==
  /\ hubProxies.defined
  /\ tstate = "connected"
  /\ \E hub \in DOMAIN hubProxies.proxies :
       \E n \in 1..Len(hubProxies.proxies[hub].on), args \in FrameArgs :
         Becomes(HubMessageReceived(Cur, hub, hubProxies.proxies[hub].on[n], args, {}))

\* the application calls connect(options) on the second service
OtherConnect ==
  /\ ~other.connection
  /\ \E o \in OtherOptionChoices : OtherBecomes(ConnectCall(Quiet(other), o))

\* the second service's pending start() promise resolves
OtherStartResolve ==
  /\ other.tstate = "connecting"
  /\ OtherBecomes(SettleStart([Quiet(other) EXCEPT !.tstate = "connected", !.starters = <<>>],
                              other.starters, TRUE))

\* the application calls register(instance) on the second service, which
\* it has connected before
OtherRegister ==
  /\ other.hubProxies.defined
  /\ BoundIn(other.hubProxies.proxies, DOMAIN other.hubProxies.proxies) < MaxGroupListeners
  /\ \E instance \in Instances : OtherBecomes(Keep(RegisterBody(Quiet(other), instance)))

\* the second service's transport delivers an inbound frame
OtherFrame ==
  /\ other.hubProxies.defined
  /\ other.tstate = "connected"
  /\ \E hub \in DOMAIN other.hubProxies.proxies :
       \E n \in 1..Len(other.hubProxies.proxies[hub].on), args \in FrameArgs :
         OtherBecomes(HubMessageReceived(Quiet(other), hub,
                                         other.hubProxies.proxies[hub].on[n], args, {}))

GroupNext ==
  \/ GroupConnect
  \/ StartResolve
  \/ GroupRegister
  \/ GroupFrame
  \/ OtherConnect
  \/ OtherStartResolve
  \/ OtherRegister
  \/ OtherFrame

GroupSpec == Init /\ [][GroupNext]_vars

(* --------------------------- matchesGroup alone ------------------------ *)
\* the group names of the application
GroupNames == {"admin", "ops"}

\* the arrays of group names of length n
RECURSIVE GroupArrays(_)
GroupArrays(n) ==
  IF n = 0 THEN { <<>> }
  ELSE { Append(gs, g) : gs \in GroupArrays(n - 1), g \in GroupNames }

\* every hubGroups value: unset, one string, an array (the empty one too)
GroupValues ==
  {NoGroup} \cup { StrGroup(g) : g \in GroupNames }
            \cup { ArrGroup(gs) : gs \in UNION { GroupArrays(n) : n \in 0..MaxGroupLen } }

\* matchesGroup(hubGroups) called on a service: the answer, and the array
\* form of this.options.hubGroups that the call leaves behind
MatchesGroupCall(s, hubGroups) ==
  Heard([s EXCEPT !.options.hubGroups = GroupAfterMatch(@, hubGroups)],
        "matchesGroup", "", "", "", "", << s.options.hubGroups, hubGroups >>,
        BoolStr(MatchesGroup(s.options.hubGroups, hubGroups)), "")

\* a service whose options hold any group filter is about to be asked about
\* any hubGroups value of a declaration
MatchInit ==
  \E ours \in GroupValues, hubGroups \in GroupValues :
    /\ other = Fresh
    /\ connection = FALSE
    /\ tstate = "disconnected"
    /\ starters = <<>>
    /\ gateSubs = <<>>
    /\ options = [ set |-> TRUE, url |-> "/signalr", attemptReconnects |-> FALSE,
                   hubGroups |-> ours ]
    /\ hubProxies = NoProxies
    /\ reconnectingObservable = Null
    /\ gatesMade = 0
    /\ errorConnecting = FALSE
    /\ tryingReconnect = FALSE
    /\ loop = [pc |-> "idle", gate |-> Null]
    /\ calls = <<>>
    /\ results = <<>>
    /\ emits = NoEmits
    /\ knownDown = FALSE
    /\ deferredRegistrations = <<>>
    /\ heard = << [ op |-> "matchesGroup", instance |-> "", hub |-> "", eventName |-> "",
                    fn |-> "", args |-> << ours, hubGroups >>, kind |-> "asked", v |-> "" ] >>
    /\ unregistered = {}
    /\ wrappers = {}
    /\ transports = 0
    /\ notified = <<>>
    /\ signalled = FALSE
    /\ wired = FALSE

\* the service evaluates matchesGroup for the pair
MatchGroup ==
  /\ heard # <<>>
  /\ heard[1].kind = "asked"
  /\ Becomes(MatchesGroupCall(Cur, heard[1].args[2]))

MatchNext == MatchGroup

MatchSpec == MatchInit /\ [][MatchNext]_vars

TypeOK ==
  /\ connection \in BOOLEAN
  /\ tstate \in {"disconnected", "connecting", "connected", "reconnecting"}
  /\ reconnectingObservable \in 0..MaxGates
  /\ gatesMade \in 0..MaxGates
  /\ Len(calls) <= MaxCalls
  /\ PendingConnects <= MaxPending
  /\ signalled \in BOOLEAN
  /\ wired \in BOOLEAN

(* ------------------------------- claims -------------------------------- *)
InvokeResults == { results[i] : i \in { j \in 1..Len(results) : results[j].op = "invoke" } }
ConnectResults == { results[i] : i \in { j \in 1..Len(results) : results[j].op = "connect" } }
Unsettled == { calls[i] : i \in 1..Len(calls) }
\* what the transport is asked when a call is passed on as the caller made it
AsCalled(c) == [hub |-> c.hub, method |-> c.method, args |-> c.args]

\* C1: once the reconnect loop that an unexpected disconnect set going has
\* succeeded (the loop flag is down and the gate slot is empty), no invoke()
\* that was deferred while that loop was running is still waiting on a gate:
\* each has been sent to the transport.
C1_DeferredCallsAreSent ==
  (~tryingReconnect /\ reconnectingObservable = Null) =>
    \A c \in Unsettled : ~(c.st = "waiting" /\ c.during = "lost")

\* C2: when a cycle of the reconnect loop that an unexpected disconnect
\* set going has ended with a successful attempt, the cycle emitted the
\* reconnected notification exactly once and the connected notification
\* exactly once.
C2_OneNotificationEach ==
  (~tryingReconnect /\ emits.cause = "lost" /\ emits.reconnected > 0) =>
    (emits.reconnected = 1 /\ emits.connected = 1)

\* C3: an invoke() issued while the gate slot is occupied is not passed to
\* the transport while it waits on the gate; once the gate has delivered true
\* it has been passed on exactly once, as called, and what its caller gets is
\* the transport's response, value for value and error for error; a call
\* whose gate delivered false fails with the disconnected error and was
\* never passed to the transport.
C3_GatedInvoke ==
  /\ \A c \in Unsettled :
       c.path = "gate" =>
         \/ c.st = "waiting" /\ c.gate # Null /\ c.sent = <<>>
         \/ c.st = "gated" /\ c.sent = <<AsCalled(c)>>
  /\ \A r \in InvokeResults :
       (r.path = "gate" /\ r.kind # "thrown") =>
         \/ r.resp.kind = "none" /\ r.kind = "error" /\ r.v = GateError /\ r.sent = <<>>
         \/ r.resp.kind = "resolved" /\ r.kind = "value" /\ r.v = r.resp.v
              /\ r.sent = <<AsCalled(r)>>
         \/ r.resp.kind = "rejected" /\ r.kind = "error" /\ r.v = r.resp.v
              /\ r.sent = <<AsCalled(r)>>

\* a call deferred on the gate was sent after the gate delivered true and its
\* caller has just received the transport's value
C3_GatedCallAnswered ==
  \E r \in InvokeResults :
    r.path = "gate" /\ r.kind = "value" /\ r.resp.kind = "resolved" /\ Len(r.sent) = 1

\* C4: in a step that starts where the service knows the transport is down
\* (a disconnected signal or a failed connect attempt was seen and no connect
\* attempt has succeeded since), invoke() passes no call to the transport: no
\* call that is not already in flight appears as sent directly.
C4_NoSendWhileDown ==
  [][ knownDown =>
        \A i \in 1..Len(calls') :
          calls'[i].st = "direct" => \E j \in 1..Len(calls) : calls[j] = calls'[i] ]_vars

\* C5: a call that was sent with no gate open, rejected while a gate was open
\* and sent again carries the second time the hub, the method name and the
\* argument list of the first time.
C5_ReissueSameCall ==
  \A c \in Unsettled \cup InvokeResults :
    (c.path = "retry" /\ Len(c.sent) = 2) => c.sent[2] = c.sent[1]

\* C6: a call sent with no gate open and rejected by the transport while the
\* gate slot is empty gives its caller the transport's own error, and the
\* transport was asked exactly once, as called; a call is only ever sent
\* again after it has waited on a gate.
C6_RejectionSurfaces ==
  /\ \A r \in InvokeResults :
       (r.path = "direct" /\ r.resp.kind = "rejected") =>
         /\ reconnectingObservable = Null
         /\ r.kind = "error" /\ r.v = r.resp.v
         /\ r.sent = <<AsCalled(r)>>
  /\ \A c \in Unsettled : c.path = "retry" => (c.gate # Null /\ c.st \in {"waiting", "gated"})

\* the transport has just rejected a directly sent call with no gate open
C6_RejectedNoGate ==
  /\ reconnectingObservable = Null
  /\ \E r \in InvokeResults :
       r.path = "direct" /\ r.resp.kind = "rejected" /\ r.kind = "error" /\ Len(r.args) = 2

\* C7: a call made with no gate open is passed to the transport exactly once
\* with the hub, method and arguments of the call, and when the transport
\* resolves it the caller receives exactly the transport's value.
C7_DirectInvoke ==
  /\ \A c \in Unsettled :
       c.st = "direct" => (c.path = "direct" /\ c.sent = <<AsCalled(c)>>)
  /\ \A r \in InvokeResults :
       (r.path = "direct" /\ r.resp.kind = "resolved") =>
         (r.kind = "value" /\ r.v = r.resp.v /\ r.sent = <<AsCalled(r)>>)

\* a call with two arguments made on a connected transport has been answered
C7_DirectCallAnswered ==
  /\ Connected(Cur)
  /\ \E r \in InvokeResults :
       r.path = "direct" /\ r.kind = "value" /\ r.resp.kind = "resolved" /\ Len(r.args) = 2

\* the hub has an active proxy
Proxied(h) == hubProxies.defined /\ h \in DOMAIN hubProxies.proxies

\* C8: in every state, before the first connect() too and while a gate is
\* open too, an invoke() on a hub without an active proxy fails with the
\* invalid-hub error without being passed to the transport, and no such call
\* is ever queued or in flight.
C8_InvalidHubAlways ==
  /\ \A r \in InvokeResults :
       ~Proxied(r.hub) => (r.kind = "thrown" /\ r.v = "Invalid hub name" /\ r.sent = <<>>)
  /\ \A c \in Unsettled : Proxied(c.hub)

\* C9: a connect() that went to the transport's start (no gate was open)
\* always gets a value, never an error: false when the start failed, true
\* when the start succeeded and the transport is in the connected state.
C9_ConnectYieldsValue ==
  \A r \in ConnectResults :
    r.path = "start" =>
      /\ r.kind = "value"
      /\ r.resp.kind = "rejected" => r.v = "false"
      /\ (r.resp.kind = "resolved" /\ tstate = "connected") => r.v = "true"

\* a connect() has just been answered false because the start failed
C9_FailedStartIsFalse ==
  \E r \in ConnectResults :
    r.path = "start" /\ r.resp.kind = "rejected" /\ r.kind = "value" /\ r.v = "false"

\* C10: a connect() made by the application while the gate slot is occupied
\* does not call the transport's start (no start is added or answered and the
\* transport's state is untouched); the caller is subscribed to the gate that
\* occupies the slot.
C10_ConnectJoinsGate ==
  [][ (Connect /\ reconnectingObservable # Null) =>
        /\ starters' = starters
        /\ tstate' = tstate
        /\ results' = <<>>
        /\ gateSubs' = Append(gateSubs, reconnectingObservable) ]_vars

\* a connect() caller is subscribed to the gate that occupies the slot
C10_CallerOnGate ==
  /\ reconnectingObservable # Null
  /\ \E i \in 1..Len(gateSubs) : gateSubs[i] = reconnectingObservable

\* C11: while the reconnect loop runs, the step that follows the delay after
\* a failed attempt makes a further attempt: it calls the transport's start
\* for the loop (the start is pending for the loop, or was answered at once
\* and ended the loop), whatever options an external connect() stored.
C11_LoopRetriesStart ==
  [][ DelayElapsed =>
        \/ loop'.pc = "start" /\ \E i \in 1..Len(starters') : starters'[i] = "loop"
        \/ ~tryingReconnect' ]_vars

\* C12: the reconnect loop is set going, and a gate opened by it, only while
\* attemptReconnects is true and never by the caller's own disconnect().
C12_LoopOnlyWhenUnexpected ==
  [][ /\ (~tryingReconnect /\ tryingReconnect') => options.attemptReconnects
      /\ Disconnect => (tryingReconnect' = tryingReconnect
                         /\ reconnectingObservable' = reconnectingObservable) ]_vars

\* C13: a gate that occupies the slot stays there until it is resolved and
\* the slot is emptied: the slot never passes from one gate to another gate.
C13_GateNeverReplaced ==
  [][ reconnectingObservable # Null =>
        reconnectingObservable' \in {reconnectingObservable, Null} ]_vars

\* C14: the gate slot is empty whenever no reconnect is in progress, neither
\* the service's reconnect loop nor a reconnect of the transport itself.
C14_GateOnlyWhileReconnecting ==
  (~tryingReconnect /\ tstate # "reconnecting") => reconnectingObservable = Null

(* ------------------- claims on registration and dispatch ---------------- *)
\* the listeners of `instance` with this callback in a proxy map's list for
\* the subscription's event on hub h
BoundFor(proxies, h, instance, sub) ==
  Len(SelectSeq(proxies[h].events[sub.eventName],
                LAMBDA l : l.thisObj = instance /\ l.callback = sub.functionName))
\* how often x occurs in seq
Times(seq, x) == Len(SelectSeq(seq, LAMBDA y : y = x))
\* the subscriptions register binds for an instance: those of its metadata
\* whose method the instance has
Bindable(instance) ==
  LET subs == Metadata(instance).subscriptions
  IN { subs[n] : n \in { k \in 1..Len(subs) : subs[k].functionName \in ClassOf(instance).methods } }
\* the step just taken dispatched a frame: its record, and the handler calls
IsFrameStep(h) == h # <<>> /\ h[Len(h)].op = "frame"
FrameOf(h) == h[Len(h)]
CallsOf(h) == SubSeq(h, 1, Len(h) - 1)

\* C15 as stated: when the first connect() builds the proxies, every
\* instance registered before it has a listener bound for each declared
\* subscription whose method it has, and a frame calls every bound listener.
C15_EveryDeferredBound ==
  [][ /\ (~hubProxies.defined /\ hubProxies'.defined) =>
           \A k \in 1..Len(deferredRegistrations) :
             LET instance == deferredRegistrations[k]
                 h == Metadata(instance).hubName
             IN /\ h \in DOMAIN hubProxies'.proxies
                /\ \A sub \in Bindable(instance) :
                     BoundFor(hubProxies'.proxies, h, instance, sub) >= 1
      /\ IsFrameStep(heard') =>
           LET f == FrameOf(heard')
               list == hubProxies.proxies[f.hub].events[f.eventName]
           IN \A n \in 1..Len(list) :
                \E c \in 1..Len(CallsOf(heard')) :
                  /\ heard'[c].instance = list[n].thisObj
                  /\ heard'[c].fn = list[n].callback ]_vars

\* the listeners of a list that other instances own, in order
OthersIn(list, instance) == SelectSeq(list, LAMBDA l : l.thisObj # instance)

\* C16: no frame calls a handler of an instance for which unregister was
\* called since it was last registered, whenever the register call was made
\* (before connect() too); and an unregister leaves the listeners of every
\* other instance, and their order, as they were.
C16_UnregisteredUnheard ==
  [][ /\ \A c \in 1..Len(heard') :
           heard'[c].op = "call" => heard'[c].instance \notin unregistered'
      /\ \A c \in 1..Len(heard') :
           (heard'[c].op = "unregister" /\ hubProxies.defined) =>
             \A h \in DOMAIN hubProxies.proxies :
               \A e \in DOMAIN hubProxies.proxies[h].events :
                 OthersIn(hubProxies'.proxies[h].events[e], heard'[c].instance)
                   = OthersIn(hubProxies.proxies[h].events[e], heard'[c].instance) ]_vars

\* the listener list a dispatched frame went through (a frame step leaves
\* the lists as they were)
ListOf(f) == hubProxies.proxies[f.hub].events[f.eventName]

\* C17: when a listener of the list throws while a frame is dispatched,
\* every listener after it in the list is still called with the frame's
\* arguments, and the transport's callback returns normally.
C17_ThrowIsContained ==
  IsFrameStep(heard) =>
    LET f == FrameOf(heard)
        list == ListOf(f)
    IN /\ f.kind = "returned"
       /\ \A n \in 1..Len(list) :
            (\E k \in 1..(n - 1) : k <= Len(CallsOf(heard)) /\ heard[k].kind = "threw") =>
              /\ n <= Len(CallsOf(heard))
              /\ heard[n].op = "call"
              /\ heard[n].instance = list[n].thisObj
              /\ heard[n].fn = list[n].callback
              /\ heard[n].args = f.args

\* the first listener of a list threw and the listener of another instance
\* behind it was called with the frame's arguments
C17_SecondStillCalled ==
  /\ IsFrameStep(heard)
  /\ Len(CallsOf(heard)) >= 2
  /\ heard[1].kind = "threw"
  /\ heard[2].op = "call" /\ heard[2].instance # heard[1].instance
  /\ heard[2].args = FrameOf(heard).args /\ Len(heard[2].args) = 2

\* C18: a register() call made after connect() binds at most one listener of
\* the instance to each event of its hub, behind the listeners already there;
\* a frame calls the listeners of its hub and event one by one in list order,
\* each exactly once with exactly the frame's arguments; and the transport
\* was subscribed once for each distinct event name of a hub.
C18_OncePerRegistration ==
  [][ /\ \A c \in 1..Len(heard') :
           (heard'[c].op = "register" /\ hubProxies.defined
              /\ heard'[c].hub \in DOMAIN hubProxies.proxies) =>
             \A e \in DOMAIN hubProxies.proxies[heard'[c].hub].events :
               LET old == hubProxies.proxies[heard'[c].hub].events[e]
                   new == hubProxies'.proxies[heard'[c].hub].events[e]
               IN /\ Len(new) <= Len(old) + 1
                  /\ SubSeq(new, 1, Len(old)) = old
      /\ IsFrameStep(heard') =>
           LET f == FrameOf(heard')
               list == hubProxies.proxies[f.hub].events[f.eventName]
           IN /\ Len(CallsOf(heard')) = Len(list)
              /\ \A n \in 1..Len(list) :
                   /\ heard'[n].op = "call"
                   /\ heard'[n].instance = list[n].thisObj
                   /\ heard'[n].fn = list[n].callback
                   /\ heard'[n].args = f.args
      /\ hubProxies'.defined =>
           \A h \in DOMAIN hubProxies'.proxies :
             \A i, j \in 1..Len(hubProxies'.proxies[h].on) :
               hubProxies'.proxies[h].on[i] = hubProxies'.proxies[h].on[j] => i = j ]_vars

\* C19: register(instance) for an instance whose hub declaration holds no
\* subscription throws the no-events error, before connect() and after it,
\* and changes nothing: no listener list and not the deferred queue.
C19_NoEventsAlwaysFails ==
  [][ \A c \in 1..Len(heard') :
        (heard'[c].op = "register"
           /\ Len(Metadata(heard'[c].instance).subscriptions) = 0) =>
          /\ heard'[c].kind = "thrown" /\ heard'[c].v = NoEventsError
          /\ hubProxies' = hubProxies
          /\ deferredRegistrations' = deferredRegistrations ]_vars

\* register has just thrown the no-events error before the first connect()
C19_ThrownBeforeConnect ==
  /\ ~hubProxies.defined
  /\ \E c \in 1..Len(heard) :
       /\ heard[c].op = "register" /\ heard[c].kind = "thrown" /\ heard[c].v = NoEventsError
       /\ Len(Metadata(heard[c].instance).subscriptions) = 0

UnproxiedMatch(r) ==
  /\ r.op = "register"
  /\ hubProxies.defined
  /\ r.hub \notin DOMAIN hubProxies.proxies
  /\ MatchesGroup(options.hubGroups, Metadata(r.instance).hubGroups)

\* C21 as stated: register(instance), called after connect(), for an
\* instance whose group matches the connection's group filter but whose hub
\* has no proxy throws the invalid-hub error and adds no listener.
C21_InvalidHubWhenUnproxied ==
  [][ \A c \in 1..Len(heard') :
        UnproxiedMatch(heard'[c]) =>
          /\ heard'[c].kind = "thrown" /\ heard'[c].v = InvalidHubError
          /\ hubProxies' = hubProxies ]_vars

\* C21: register(instance), called after connect(), for an instance whose
\* declaration holds at least one subscription, whose group matches the
\* connection's group filter and whose hub has no proxy throws the
\* invalid-hub error and adds no listener.
C21_InvalidHubThrown ==
  [][ \A c \in 1..Len(heard') :
        ( UnproxiedMatch(heard'[c])
            /\ Len(Metadata(heard'[c].instance).subscriptions) > 0 ) =>
          /\ heard'[c].kind = "thrown" /\ heard'[c].v = InvalidHubError
          /\ hubProxies' = hubProxies ]_vars

\* register has just thrown the invalid-hub error on a connected service
\* whose group filter the instance's declaration matches
C21_InvalidHubAfterConnect ==
  /\ hubProxies.defined /\ tstate = "connected"
  /\ \E c \in 1..Len(heard) :
       /\ heard[c].op = "register" /\ heard[c].kind = "thrown"
       /\ heard[c].v = InvalidHubError
       /\ heard[c].hub \notin DOMAIN hubProxies.proxies
       /\ MatchesGroup(options.hubGroups, Metadata(heard[c].instance).hubGroups)

\* the listeners register(instance) pushes onto the list of event e: one for
\* every subscription of the instance's metadata for e whose method the
\* instance has, in the order of the metadata
RECURSIVE ListenersFor(_, _, _)
ListenersFor(instance, e, subs) ==
  IF subs = <<>> THEN <<>>
  ELSE IF Head(subs).eventName = e /\ Head(subs).functionName \in ClassOf(instance).methods
       THEN << [thisObj |-> instance, callback |-> Head(subs).functionName] >>
              \o ListenersFor(instance, e, Tail(subs))
       ELSE ListenersFor(instance, e, Tail(subs))

\* does the instance lack the method of one of its metadata's subscriptions
LacksHandler(instance) ==
  \E n \in 1..Len(Metadata(instance).subscriptions) :
    Metadata(instance).subscriptions[n].functionName \notin ClassOf(instance).methods

\* C22: a register(instance) call for an instance with declared
\* subscriptions, on a service that has a proxy for the instance's hub,
\* returns a wrapper, also when the instance lacks the method of a
\* subscription, and appends to every event's list one listener for each
\* subscription of that event whose method the instance has, in declaration
\* order, and nothing for the others.
C22_MissingHandlerSkipped ==
  [][ \A c \in 1..Len(heard') :
        ( heard'[c].op = "register" /\ hubProxies.defined
            /\ heard'[c].hub \in DOMAIN hubProxies.proxies
            /\ Len(Metadata(heard'[c].instance).subscriptions) > 0 ) =>
          /\ heard'[c].kind = "wrapper"
          /\ \A e \in DOMAIN hubProxies.proxies[heard'[c].hub].events :
               hubProxies'.proxies[heard'[c].hub].events[e]
                 = hubProxies.proxies[heard'[c].hub].events[e]
                     \o ListenersFor(heard'[c].instance, e,
                                     Metadata(heard'[c].instance).subscriptions) ]_vars

\* register has just returned a wrapper for an instance that lacks the method
\* of one subscription and has a listener bound for another
C22_WrapperDespiteMissing ==
  /\ hubProxies.defined
  /\ \E c \in 1..Len(heard) :
       /\ heard[c].op = "register" /\ heard[c].kind = "wrapper"
       /\ LacksHandler(heard[c].instance)
       /\ \E e \in DOMAIN hubProxies.proxies[heard[c].hub].events :
            /\ ListenersFor(heard[c].instance, e, Metadata(heard[c].instance).subscriptions)
                 # <<>>
            /\ \E n \in 1..Len(hubProxies.proxies[heard[c].hub].events[e]) :
                 hubProxies.proxies[heard[c].hub].events[e][n].thisObj = heard[c].instance
       /\ \E e \in DOMAIN hubProxies.proxies[heard[c].hub].events :
            /\ \E n \in 1..Len(Metadata(heard[c].instance).subscriptions) :
                 Metadata(heard[c].instance).subscriptions[n].eventName = e
            /\ hubProxies.proxies[heard[c].hub].events[e] = <<>>

\* the group names a hubGroups value holds
GroupSet(g) == { g.v[i] : i \in 1..Len(g.v) }

\* C23: for every pair of hubGroups values (unset, one string, or an array,
\* the empty array included) matchesGroup answers true exactly when both
\* are unset or empty, or the two have a group name in common.
C23_MatchIffBothEmptyOrShared ==
  \A c \in 1..Len(heard) :
    (heard[c].op = "matchesGroup" /\ heard[c].kind # "asked") =>
      ( heard[c].kind = "true"
          <=> \/ GroupSet(heard[c].args[1]) = {} /\ GroupSet(heard[c].args[2]) = {}
              \/ GroupSet(heard[c].args[1]) \cap GroupSet(heard[c].args[2]) # {} )

\* do a connection's filter and a declaration's groups go together: both are
\* unset, or they hold a group name in common
SharesGroup(ours, hubGroups) ==
  \/ ours.kind = "null" /\ hubGroups.kind = "null"
  \/ GroupSet(ours) \cap GroupSet(hubGroups) # {}

\* the hubs of the registry whose declaration goes with a filter
HubsFor(ours) ==
  { allHubProperties[n].hubName :
      n \in { k \in 1..Len(allHubProperties) : SharesGroup(ours, allHubProperties[k].hubGroups) } }

\* the listeners of a list, as a set
InList(list) == { list[n] : n \in 1..Len(list) }

\* the handler calls of a step's log all went to listeners of this proxy map
CallsWithin(h, proxies) ==
  \A c \in 1..Len(h) :
    h[c].op = "call" =>
      /\ h[c].hub \in DOMAIN proxies
      /\ [thisObj |-> h[c].instance, callback |-> h[c].fn]
           \in InList(proxies[h[c].hub].events[h[c].eventName])

\* C24: of two services over the one registry, each makes proxies for
\* exactly the declarations whose groups go with the filter it was connected
\* with; a frame on one service's transport calls listeners of that service's
\* lists only and no handler through the other service; and no step of one
\* service changes the other's proxies or listener lists.
C24_ServicesFilterApart ==
  [][ /\ (~hubProxies.defined /\ hubProxies'.defined) =>
           DOMAIN hubProxies'.proxies = HubsFor(options'.hubGroups)
      /\ (~other.hubProxies.defined /\ other'.hubProxies.defined) =>
           DOMAIN other'.hubProxies.proxies = HubsFor(other'.options.hubGroups)
      /\ IsFrameStep(heard') =>
           /\ CallsWithin(heard', hubProxies.proxies)
           /\ other'.heard = <<>>
      /\ IsFrameStep(other'.heard) =>
           /\ CallsWithin(other'.heard, other.hubProxies.proxies)
           /\ heard' = <<>>
      /\ hubProxies' # hubProxies => other'.hubProxies = other.hubProxies
      /\ other'.hubProxies # other.hubProxies => hubProxies' = hubProxies ]_vars

\* two connected services with different filters and different proxies each
\* hold a listener, and a frame on the second one has just called its own
C24_FrameOnSecondService ==
  /\ tstate = "connected" /\ other.tstate = "connected"
  /\ GroupSet(options.hubGroups) # GroupSet(other.options.hubGroups)
  /\ DOMAIN hubProxies.proxies # DOMAIN other.hubProxies.proxies
  /\ DOMAIN hubProxies.proxies # {}
  /\ Listeners(DOMAIN hubProxies.proxies) > 0
  /\ IsFrameStep(other.heard)
  /\ \E c \in 1..Len(other.heard) : other.heard[c].op = "call"

\* C25: a connect() call made on a connected service leaves in force the
\* options of the call that created the transport: what disconnectedCallback
\* reads to decide on the reconnect loop (attemptReconnects) is as before,
\* and so is the answer of matchesGroup for every hubGroups value.
C25_LaterConnectKeepsOptions ==
  [][ (GroupConnect /\ connection /\ tstate = "connected") =>
        /\ options'.attemptReconnects = options.attemptReconnects
        /\ \A g \in GroupValues :
             MatchesGroup(options'.hubGroups, g) = MatchesGroup(options.hubGroups, g) ]_vars

(* -------------------- claims on the connection's state ----------------- *)
\* C26 as stated: once errorConnecting is true it stays true.
C26_ErrorFlagSticky == [][errorConnecting => errorConnecting']_vars

\* C26: errorConnecting is false until the first connect(); a start() that
\* rejects sets it; a start() that resolves with the transport connected
\* takes it back, and nothing else does; the transport's own reconnected
\* signal leaves it as it is.
C26_ErrorFlagFollowsLastStart ==
  [][ /\ ~connection => ~errorConnecting
      /\ StartReject => errorConnecting'
      /\ StartResolve => ~errorConnecting'
      /\ TransportReconnected => (errorConnecting' = errorConnecting)
      /\ (errorConnecting /\ ~errorConnecting') =>
           (tstate' = "connected" /\ (StartResolve \/ Connect \/ DelayElapsed)) ]_vars

\* a connect() caller has just got false because start() rejected, and the
\* flag is set
C26_FlagSetByFailedStart ==
  /\ errorConnecting
  /\ \E r \in ConnectResults : r.resp.kind = "rejected" /\ r.v = "false"

\* C27: whatever connect() returned, its subscriber gets one boolean and
\* then the completion, on the gate's path as on start()'s, so that
\* toPromise() on the result settles.
C27_ConnectCompletes ==
  \A r \in ConnectResults :
    r.kind = "value" => (r.v \in {"true", "false"} /\ r.completes)

(* ------------------------- claims on the wrappers ----------------------- *)
\* C28: once connect() has built the proxies, every wrapper that register
\* returned for a hub with a proxy has that proxy in its hub field, the
\* wrappers returned before connect() too.
C28_WrapperHubIsProxy ==
  hubProxies.defined =>
    \A w \in wrappers :
      w.hubName \in DOMAIN hubProxies.proxies => w.hub = w.hubName

(* ------------------------ claims on the registry ------------------------ *)
\* the subscription lists of the first n classes that declare hub h, one
\* behind the other
RECURSIVE DeclaredFor(_, _)
DeclaredFor(h, n) ==
  IF n = 0 THEN <<>>
  ELSE DeclaredFor(h, n - 1)
         \o ( IF Classes[n].hub.hubName = h
              THEN getOrCreateHubProperties(Classes[n]).subscriptions ELSE <<>> )

\* C29: the registry holds one entry per hub name, whose subscriptions are
\* those of all the classes declaring the hub; and register(instance) goes
\* by the declaration of the instance's own class whatever other classes
\* declare the same hub: it throws the no-events error exactly when that
\* declaration holds no subscription, and binds one listener for each of its
\* subscriptions whose method the instance has.
C29_OwnDeclarationUnchanged ==
  [][ /\ \A i, j \in 1..Len(allHubProperties) :
           allHubProperties[i].hubName = allHubProperties[j].hubName => i = j
      /\ \A i \in 1..Len(allHubProperties) :
           allHubProperties[i].subscriptions
             = DeclaredFor(allHubProperties[i].hubName, Len(Classes))
      /\ \A c \in 1..Len(heard') :
           ( heard'[c].op = "register" /\ hubProxies.defined
               /\ heard'[c].hub \in DOMAIN hubProxies.proxies ) =>
             LET own == getOrCreateHubProperties(ClassOf(heard'[c].instance))
             IN /\ (heard'[c].kind = "thrown" /\ heard'[c].v = NoEventsError)
                     <=> Len(own.subscriptions) = 0
                /\ Len(own.subscriptions) > 0 =>
                     \A e \in DOMAIN hubProxies.proxies[heard'[c].hub].events :
                       hubProxies'.proxies[heard'[c].hub].events[e]
                         = hubProxies.proxies[heard'[c].hub].events[e]
                             \o ListenersFor(heard'[c].instance, e, own.subscriptions) ]_vars

\* C30: the service has at most one transport made for it: the first
\* connect() makes it, and from then on no step makes another one or builds
\* the proxy map anew.
C30_OneTransport ==
  [][ /\ transports' <= 1
      /\ connection' <=> transports' = 1
      /\ (~connection /\ Connect) => transports' = 1
      /\ connection =>
           /\ transports' = transports
           /\ hubProxies'.proxies = hubProxies.proxies ]_vars

\* the service is connected again after a reconnect loop ran, on the one
\* transport it has had
C30_SameTransportAfterLoop ==
  /\ transports = 1
  /\ tstate = "connected"
  /\ gatesMade > 0
  /\ emits.connected > 0
  /\ ~tryingReconnect

(* --------------------- claims on repeated registration ------------------ *)
\* the listeners of an instance in a list
OwnIn(list, instance) == Len(SelectSeq(list, LAMBDA l : l.thisObj = instance))

\* C31: every register(instance) call adds one more listener of the
\* instance to each of its events, after connect() and, through the deferred
\* queue, before it: k calls leave k listeners and a frame calls the handler
\* k times; one unregister(instance) removes all of them.
C31_KRegistrationsKListeners ==
  [][ /\ \A c \in 1..Len(heard') :
           ( heard'[c].op = "register" /\ heard'[c].kind = "wrapper" /\ hubProxies.defined ) =>
             \A sub \in Bindable(heard'[c].instance) :
               OwnIn(hubProxies'.proxies[heard'[c].hub].events[sub.eventName],
                     heard'[c].instance)
                 = OwnIn(hubProxies.proxies[heard'[c].hub].events[sub.eventName],
                         heard'[c].instance) + 1
      /\ (~hubProxies.defined /\ hubProxies'.defined) =>
           \A k \in 1..Len(deferredRegistrations) :
             LET instance == deferredRegistrations[k]
                 h == Metadata(instance).hubName
             IN h \in DOMAIN hubProxies'.proxies =>
                  \A sub \in Bindable(instance) :
                    OwnIn(hubProxies'.proxies[h].events[sub.eventName], instance)
                      = Times(deferredRegistrations, instance)
      /\ IsFrameStep(heard') =>
           \A instance \in Instances :
             Len(SelectSeq(CallsOf(heard'), LAMBDA r : r.instance = instance))
               = OwnIn(ListOf(FrameOf(heard')), instance)
      /\ \A c \in 1..Len(heard') :
           ( heard'[c].op = "unregister" /\ heard'[c].kind = "returned"
               /\ heard'[c].hub \in DOMAIN hubProxies'.proxies ) =>
             \A e \in DOMAIN hubProxies'.proxies[heard'[c].hub].events :
               OwnIn(hubProxies'.proxies[heard'[c].hub].events[e], heard'[c].instance) = 0
    ]_vars

(* ------------------------ claims on invocations ------------------------- *)
\* C32: the transport's invoke is called at most twice on behalf of one
\* invoke(): once at first and at most once more behind a gate; when the
\* transport rejects the call that was issued again, the caller gets that
\* rejection as an error and the call is not issued a third time, whether
\* or not another gate is open by then.
C32_AtMostOneReissue ==
  /\ \A i \in 1..Len(calls) :
       /\ Len(calls[i].sent) <= 2
       /\ calls[i].resp.kind # "rejected"
  /\ \A r \in InvokeResults :
       /\ Len(r.sent) <= 2
       /\ (r.path = "retry" /\ r.resp.kind = "rejected") =>
            (r.kind = "error" /\ r.v = r.resp.v)

\* a call that was issued again has just been rejected by the transport
\* while a new gate is open, and its caller got the rejection
C32_SecondRejectionSurfaced ==
  /\ reconnectingObservable # Null
  /\ \E r \in InvokeResults :
       /\ r.path = "retry" /\ Len(r.sent) = 2
       /\ r.resp.kind = "rejected" /\ r.kind = "error" /\ r.v = r.resp.v

\* C33: when the value of an invoke() reaches its caller, the stream the
\* caller holds completes behind it, for a call that waited on a gate as for
\* a call sent directly, so that toPromise() on it settles.
C33_InvokeCompletes ==
  \A r \in InvokeResults : r.kind = "value" => r.completes

(* ---------------------- claims on the reconnect loop -------------------- *)
\* the disconnected notifications among the events
Disconnects(events) == Len(SelectSeq(events, LAMBDA ev : ev = "disconnected"))

\* C34: while the reconnect loop's flag is set, a disconnected signal of the
\* transport is ignored: it starts no second loop (the flag stays set, the
\* one loop stays where it is or goes to its delay when the signal comes with
\* the rejection of its start), creates no gate and emits no disconnected
\* notification (the only ones are those of the rejected starts).
C34_DisconnectedIgnoredInLoop ==
  [][(tryingReconnect /\ signalled') =>
       /\ gatesMade' = gatesMade
       /\ reconnectingObservable' = reconnectingObservable
       /\ tryingReconnect'
       /\ loop' = IF loop.pc = "start" THEN [pc |-> "delay", gate |-> Null] ELSE loop
       /\ starters' = <<>>
       /\ Disconnects(notified') = Len(starters)]_vars

\* the transport has raised its disconnected signal in a step that began
\* with the loop's flag set
C34_SignalDuringLoop ==
  /\ signalled
  /\ tryingReconnect
  /\ gatesMade = reconnectingObservable
  /\ loop.pc = "delay"
  /\ notified = <<"disconnected">>

\* C35: at most one start() of the transport is outstanding at any time,
\* whatever the order of connect() calls, attempts of the reconnect loop and
\* signals of the transport; a connect() made while the start() of an
\* earlier connect() is pending calls no start() of its own.
C35_OneStartOutstanding ==
  Len(starters) <= 1

\* the request the transport gets for a call that waits on a gate: the
\* arguments are those the invoke() that subscribed to the gate was given
RequestOf(call) == [hub |-> call.hub, method |-> call.method, args |-> call.cur]

\* C36: a reconnect of the transport itself is gated: its reconnecting signal
\* emits the reconnecting notification and puts a new gate in the slot; an
\* invoke() made before the reconnected signal waits on that gate and nothing
\* is sent for it; the reconnected signal emits reconnected and connected,
\* clears the slot, and every call that waited on the gate has been sent to
\* the transport once more, with the arguments its invoke() was given, when
\* the step is over.
C36_TransportReconnectGated ==
  [][/\ (tstate = "connected" /\ tstate' = "reconnecting") =>
          /\ notified' = <<"reconnecting">>
          /\ reconnectingObservable' # Null
          /\ reconnectingObservable' # reconnectingObservable
     /\ (tstate = "reconnecting" /\ tstate' = "reconnecting") =>
          /\ reconnectingObservable' = reconnectingObservable
          /\ reconnectingObservable # Null
          /\ \A i \in 1..Len(calls') :
               calls'[i] \in { calls[j] : j \in 1..Len(calls) } \/
                 /\ calls'[i].st = "waiting"
                 /\ calls'[i].gate = reconnectingObservable
                 /\ calls'[i].sent \in {<<>>} \cup { calls[j].sent : j \in 1..Len(calls) }
     /\ (tstate = "reconnecting" /\ tstate' = "connected") =>
          /\ notified' = <<"reconnected", "connected">>
          /\ reconnectingObservable # Null
          /\ reconnectingObservable' = Null
          /\ Len(calls') = Len(calls)
          /\ \A i \in 1..Len(calls) :
               (calls[i].st = "waiting" /\ calls[i].gate = reconnectingObservable) =>
                 /\ calls'[i].st = "gated"
                 /\ calls'[i].sent = Append(calls[i].sent, RequestOf(calls[i]))
    ]_vars

\* the transport has just raised its reconnected signal and a call that
\* waited on the gate of its reconnect has been sent
C36_HeldCallSent ==
  /\ notified = <<"reconnected", "connected">>
  /\ tstate = "connected"
  /\ reconnectingObservable = Null
  /\ \E i \in 1..Len(calls) :
       /\ calls[i].st = "gated"
       /\ calls[i].path = "gate"
       /\ calls[i].sent = <<RequestOf(calls[i])>>

(* ------------------ claims on the set-up of a connection --------------- *)
\* every instance of the deferred queue whose hub has a proxy has a listener
\* for each subscription register binds for it
DeferredBound ==
  \A k \in 1..Len(deferredRegistrations) :
    LET instance == deferredRegistrations[k]
        h == Metadata(instance).hubName
    IN Proxied(h) =>
         \A sub \in Bindable(instance) : BoundFor(hubProxies.proxies, h, instance, sub) >= 1

\* C37: whenever a connect() call returns without throwing, the transport
\* has the service's callbacks and every instance of the deferred queue has
\* been bound, also when an earlier connect() threw while it replayed the
\* deferred registrations.
C37_ConnectLeavesWiredAndBound ==
  [][(ReplayConnect /\ \A r \in ConnectResults' : r.kind # "thrown") =>
       (wired' /\ DeferredBound')]_vars

(* ------------------ claims on unregister during dispatch --------------- *)
\* the instances for which unregister was called in the step
Quit(h) == { h[c].instance : c \in { k \in 1..Len(h) : h[k].op = "unregister" } }

\* the calls of a listener's handler in the step
CallsTo(h, l) ==
  Len(SelectSeq(h, LAMBDA r : r.op = "call" /\ r.instance = l.thisObj /\ r.fn = l.callback))

\* C38: when a handler calls unregister while a frame is dispatched, every
\* listener that was in the list of the frame's hub and event when the frame
\* arrived, and whose instance was not unregistered, is called exactly once
\* for the frame (once per entry it has in the list).
C38_RemainingListenersCalled ==
  [][IsFrameStep(heard') =>
       LET f == FrameOf(heard')
           list == hubProxies.proxies[f.hub].events[f.eventName]
       IN \A n \in 1..Len(list) :
            list[n].thisObj \notin Quit(heard') =>
              CallsTo(heard', list[n]) = Times(list, list[n])]_vars

(* --------------------- claims on the loop's flag ------------------------ *)
\* C39: while tryingReconnect is set the gate slot holds a gate, and the
\* flag goes down only in the step in which an attempt of the loop succeeds:
\* the connection is up, the reconnected and connected notifications are
\* emitted, and the gate that was in the slot is taken out of it.
C39_FlagImpliesGate ==
  [][/\ tryingReconnect' => reconnectingObservable' # Null
     /\ (tryingReconnect /\ ~tryingReconnect') =>
          /\ reconnectingObservable # Null
          /\ reconnectingObservable' = Null
          /\ loop.pc = "start" /\ loop'.pc = "idle"
          /\ tstate' = "connected"
          /\ notified' = <<"connected", "reconnected", "connected">>]_vars

\* an attempt of the loop has just succeeded and the flag is down
C39_LoopSucceeded ==
  /\ ~tryingReconnect
  /\ gatesMade > 0
  /\ reconnectingObservable = Null
  /\ tstate = "connected"
  /\ notified = <<"connected", "reconnected", "connected">>

====
